---- MODULE Spec2Model ----
(***************************************************************************)
(* Model of VideoDelayController (assets/js/video-delay-control.js).       *)
(*                                                                         *)
(* One page session holds one controller.  The controller's fields are the *)
(* variables attempts, isDisplayed, videoInstance, timeUpdateHandler and   *)
(* intervalId.  The host environment is modelled by localStorage (the      *)
(* value stored under the configured key), smartplayer (the first player   *)
(* instance and what it offers), document (the page elements), timers (the *)
(* pending setTimeout / setInterval callbacks) and listeners (whether the  *)
(* instance still holds the controller's timeupdate handler).  hist holds  *)
(* history only: it never influences a guard or an assignment of the       *)
(* program state.                                                          *)
(*                                                                         *)
(* Every method of the class is an operator from a world record to a world *)
(* record, translated statement by statement; every action applies one     *)
(* whole callback or public method.  JavaScript is single threaded, so a   *)
(* callback runs to completion and an action is atomic.                    *)
(***************************************************************************)
EXTENDS Integers, FiniteSets, Sequences, TLC

\* ---------------------------------------------------------------- bounds
MaxSeconds == 1
MaxTime == 1
MaxAttemptsCfg == 2
MaxDelayed == 1

\* ------------------------------------------------------------- constants
NULL == "null"
NA == -1

\* config.secondsToDisplay, maxAttempts, storageKey, scrollToId; the other
\* fields of DEFAULT_CONFIG are valid class names and selectors.
Configs ==
  [secondsToDisplay : 0..MaxSeconds,
   maxAttempts : 0..MaxAttemptsCfg,
   storageKey : {NULL, "x"},
   scrollToId : {NULL, "offer"}]

\* What smartplayer.instances[0] offers: the subscribe method `on`, and
\* what each removal method of the detach chain does to a handler that was
\* registered with `on`.
InstanceShapes ==
  { [on |-> TRUE,  off |-> "removes", removeEventListener |-> "absent",  videoRemove |-> "absent"],
    [on |-> TRUE,  off |-> "throws",  removeEventListener |-> "absent",  videoRemove |-> "absent"],
    [on |-> TRUE,  off |-> "absent",  removeEventListener |-> "absent",  videoRemove |-> "noop"],
    [on |-> FALSE, off |-> "absent",  removeEventListener |-> "removes", videoRemove |-> "absent"] }

\* video.currentTime as the instance reports it; NA stands for a missing
\* video element or time field.
TimeValues == (0..MaxTime) \cup {NA}

\* localStorage.setItem either stores the value or throws (quota exceeded).
SetItemOutcomes == {"stored", "throws"}

NoPlayer == [present |-> FALSE, shape |-> CHOOSE s \in InstanceShapes : s.on /\ s.off = "removes",
             currentTime |-> NA, smartAutoPlay |-> FALSE]

NoTimers == [retry |-> FALSE, fastPath |-> FALSE, scroll |-> FALSE, interval |-> FALSE]

RevealSteps == {"removeDelay", "showContainer", "scheduleScroll", "setItem",
                "scrollTo", "clearInterval", "detach"}

NoHist ==
  [revealBy |-> NULL, revealCalls |-> 0, repeated |-> FALSE, revealRuns |-> 0,
   done |-> [s \in RevealSteps |-> 0], skipped |-> {}, setItemFailed |-> FALSE,
   uncaught |-> FALSE, getItems |-> 0, fastPath |-> FALSE,
   hostQueries |-> 0, retriesScheduled |-> 0, retriesFired |-> 0,
   subscribes |-> 0, intervalsStarted |-> 0, destroyed |-> FALSE,
   storedAtLoad |-> NULL, prevRun |-> "none"]

VARIABLES config, localStorage, smartplayer, document, attempts, isDisplayed,
          videoInstance, timeUpdateHandler, intervalId, timers, listeners,
          controller, session, hist

vars == <<config, localStorage, smartplayer, document, attempts, isDisplayed,
          videoInstance, timeUpdateHandler, intervalId, timers, listeners,
          controller, session, hist>>

World ==
  [localStorage |-> localStorage, smartplayer |-> smartplayer, document |-> document,
   attempts |-> attempts, isDisplayed |-> isDisplayed, videoInstance |-> videoInstance,
   timeUpdateHandler |-> timeUpdateHandler, intervalId |-> intervalId,
   timers |-> timers, listeners |-> listeners, hist |-> hist]

Commit(w) ==
  /\ localStorage' = w.localStorage
  /\ smartplayer' = w.smartplayer
  /\ document' = w.document
  /\ attempts' = w.attempts
  /\ isDisplayed' = w.isDisplayed
  /\ videoInstance' = w.videoInstance
  /\ timeUpdateHandler' = w.timeUpdateHandler
  /\ intervalId' = w.intervalId
  /\ timers' = w.timers
  /\ listeners' = w.listeners
  /\ hist' = w.hist

Did(w, step) == [w EXCEPT !.hist.done[step] = @ + 1]

\* ------------------------------------------------------- detach chain
\* off / removeEventListener / video.removeEventListener, first one present.
removeListener(shape) ==
  IF shape.off # "absent" THEN shape.off
  ELSE IF shape.removeEventListener # "absent" THEN shape.removeEventListener
  ELSE IF shape.videoRemove # "absent" THEN shape.videoRemove
  ELSE "absent"

\* if (this.videoInstance && this.timeUpdateHandler) { try { ... } catch {} }
detachHandler(w) ==
  IF w.videoInstance # NULL /\ w.timeUpdateHandler # NULL
  THEN LET r == removeListener(w.smartplayer.shape)
       IN [w EXCEPT !.listeners = IF r = "removes" THEN FALSE ELSE @]
  ELSE w

\* ------------------------------------------------------- revealContent
\* delayedElements.forEach(el => el.classList.remove(delayClass))
removeDelayClass(w) == Did([w EXCEPT !.document.delayed = 0], "removeDelay")

\* if (delayedContent) { classList.add(showClass); aria-hidden = false }
showContainer(w) ==
  IF w.document.container # "absent"
  THEN Did([w EXCEPT !.document.container = "shown"], "showContainer")
  ELSE Did(w, "showContainer")

\* setTimeout(() => kitsSection.scrollIntoView(...), 500)
scheduleScroll(w) == Did([w EXCEPT !.timers.scroll = TRUE], "scheduleScroll")

\* The statements of the try block before localStorage.setItem.
revealDom(w) == scheduleScroll(showContainer(removeDelayClass(w)))

\* The statements of the try block after localStorage.setItem.
revealRelease(w) ==
  LET e == IF config.scrollToId # NULL /\ config.scrollToId # "delayed-content"
           THEN Did(w, "scrollTo") ELSE w
      f == IF e.intervalId # NULL
           THEN Did([e EXCEPT !.timers.interval = FALSE, !.intervalId = NULL], "clearInterval")
           ELSE e
  IN IF f.videoInstance # NULL /\ f.timeUpdateHandler # NULL
     THEN Did(detachHandler(f), "detach") ELSE f

\* The steps a throw of setItem leaves unattempted although they applied.
stepsAfterSetItem(w) ==
  (IF config.scrollToId # NULL /\ config.scrollToId # "delayed-content" THEN {"scrollTo"} ELSE {})
  \cup (IF w.intervalId # NULL THEN {"clearInterval"} ELSE {})
  \cup (IF w.videoInstance # NULL /\ w.timeUpdateHandler # NULL THEN {"detach"} ELSE {})

\* Mutant: the flag is never written.
storeFlagSkipped(w) == w

\* localStorage.setItem(this.config.storageKey, 'true')
storeFlag(w) == Did([w EXCEPT !.localStorage = "true"], "setItem")

\* Mutant: the latch is not written before the side effects.
latchMissing(w, via) == [w EXCEPT !.hist.revealRuns = @ + 1, !.hist.revealBy = via]

\* this.isDisplayed = true
latch(w, via) ==
  [w EXCEPT !.isDisplayed = TRUE, !.hist.revealRuns = @ + 1, !.hist.revealBy = via]

\* revealContent from `this.isDisplayed = true` on: the latch, then the try
\* block; a throw of setItem leaves the try block for its catch.
revealBody(w, via, setItem) ==
  LET latched == latch(w, via)
      c == revealDom(latched)
  IN IF config.storageKey # NULL
     THEN IF setItem = "throws"
          THEN [c EXCEPT !.hist.setItemFailed = TRUE,
                         !.hist.skipped = stepsAfterSetItem(c)]
          ELSE revealRelease(storeFlag(c))
     ELSE revealRelease(c)

\* Mutant: no `if (this.isDisplayed) return`.
revealContentNoLatch(w, via, setItem) ==
  revealBody([w EXCEPT !.hist.revealCalls = 1, !.hist.repeated = (w.hist.revealCalls = 1)],
             via, setItem)

revealContent(w, via, setItem) ==
  LET called == [w EXCEPT !.hist.revealCalls = 1, !.hist.repeated = (w.hist.revealCalls = 1)]
  IN IF w.isDisplayed THEN called ELSE revealBody(called, via, setItem)

\* ------------------------------------------------------ getVideoInstance
getVideoInstance(w) == IF w.smartplayer.present THEN "instance0" ELSE NULL

\* ---------------------------------------------------- timeUpdateHandler
\* const currentTime = this.videoInstance?.video?.currentTime || 0
readTime(w) ==
  IF w.videoInstance = NULL \/ w.smartplayer.currentTime = NA THEN 0
  ELSE w.smartplayer.currentTime

\* Mutant: `>` for `>=` in the threshold test.
handleTimeUpdateStrict(w, setItem) ==
  IF w.isDisplayed THEN w
  ELSE IF w.videoInstance = NULL
       THEN [w EXCEPT !.hist.uncaught = TRUE]
       ELSE IF w.smartplayer.smartAutoPlay /\ readTime(w) = 0 THEN w
            ELSE IF readTime(w) > config.secondsToDisplay
                 THEN revealContent(w, "threshold", setItem)
                 ELSE w

handleTimeUpdate(w, setItem) ==
  IF w.isDisplayed THEN w
  ELSE IF w.videoInstance = NULL
       THEN [w EXCEPT !.hist.uncaught = TRUE]  \* null.smartAutoPlay: TypeError
       ELSE IF w.smartplayer.smartAutoPlay /\ readTime(w) = 0 THEN w
            ELSE IF readTime(w) >= config.secondsToDisplay
                 THEN revealContent(w, "threshold", setItem)
                 ELSE w

\* ---------------------------------------------------------- startWatching
immediateCheck(w) ==
  /\ w.smartplayer.currentTime # NA
  /\ w.smartplayer.currentTime >= config.secondsToDisplay

\* Mutant: a retry is scheduled although the instance was found.
watchInstanceAndRetry(q, setItem) ==
  LET h == [q EXCEPT !.timeUpdateHandler = "handler"]
  IN IF ~ h.smartplayer.shape.on
     THEN [h EXCEPT !.hist.uncaught = TRUE]
     ELSE LET s == [h EXCEPT !.listeners = TRUE, !.hist.subscribes = @ + 1,
                             !.intervalId = "interval", !.timers.interval = TRUE,
                             !.hist.intervalsStarted = @ + 1,
                             !.timers.retry = TRUE, !.hist.retriesScheduled = @ + 1]
          IN IF immediateCheck(s)
             THEN revealContent(s, "immediate", setItem)
             ELSE s

\* What startWatching does once getVideoInstance returned an instance.
watchInstance(q, setItem) ==
  LET h == [q EXCEPT !.timeUpdateHandler = "handler"]
  IN IF ~ h.smartplayer.shape.on
     THEN [h EXCEPT !.hist.uncaught = TRUE]  \* videoInstance.on is not a function
     ELSE LET s == [h EXCEPT !.listeners = TRUE, !.hist.subscribes = @ + 1,
                             !.intervalId = "interval", !.timers.interval = TRUE,
                             !.hist.intervalsStarted = @ + 1]
          IN IF immediateCheck(s)
             THEN revealContent(s, "immediate", setItem)
             ELSE s

\* Mutant: no `if (this.isDisplayed) return` at the top of startWatching.
startWatchingNoGuard(w, setItem) ==
  LET q == [w EXCEPT !.videoInstance = getVideoInstance(w), !.hist.hostQueries = @ + 1]
  IN IF q.videoInstance = NULL
     THEN IF q.attempts >= config.maxAttempts
          THEN revealContent(q, "exhaustion", setItem)
          ELSE [q EXCEPT !.attempts = @ + 1, !.timers.retry = TRUE,
                         !.hist.retriesScheduled = @ + 1]
     ELSE watchInstance(q, setItem)

\* Mutant: `>` for `>=` in the exhaustion test: one retry too many.
startWatchingOneMore(w, setItem) ==
  IF w.isDisplayed THEN w
  ELSE LET q == [w EXCEPT !.videoInstance = getVideoInstance(w), !.hist.hostQueries = @ + 1]
       IN IF q.videoInstance = NULL
          THEN IF q.attempts > config.maxAttempts
               THEN revealContent(q, "exhaustion", setItem)
               ELSE [q EXCEPT !.attempts = @ + 1, !.timers.retry = TRUE,
                              !.hist.retriesScheduled = @ + 1]
          ELSE watchInstance(q, setItem)

\* Mutant: exhausted discovery gives up without the fail-open reveal.
startWatchingGiveUp(w, setItem) ==
  IF w.isDisplayed THEN w
  ELSE LET q == [w EXCEPT !.videoInstance = getVideoInstance(w), !.hist.hostQueries = @ + 1]
       IN IF q.videoInstance = NULL
          THEN IF q.attempts >= config.maxAttempts
               THEN q
               ELSE [q EXCEPT !.attempts = @ + 1, !.timers.retry = TRUE,
                              !.hist.retriesScheduled = @ + 1]
          ELSE watchInstance(q, setItem)

startWatching(w, setItem) ==
  IF w.isDisplayed THEN w
  ELSE LET q == [w EXCEPT !.videoInstance = getVideoInstance(w), !.hist.hostQueries = @ + 1]
       IN IF q.videoInstance = NULL
          THEN IF q.attempts >= config.maxAttempts
               THEN revealContent(q, "exhaustion", setItem)
               ELSE [q EXCEPT !.attempts = @ + 1, !.timers.retry = TRUE,
                              !.hist.retriesScheduled = @ + 1]
          ELSE watchInstance(q, setItem)

\* ------------------------------------------------------------- destroy
\* Mutant: teardown also reopens the latch.
destroyResetsLatch(w) ==
  LET a == IF w.intervalId # NULL
           THEN [w EXCEPT !.timers.interval = FALSE, !.intervalId = NULL]
           ELSE w
      b == detachHandler(a)
  IN [b EXCEPT !.videoInstance = NULL, !.timeUpdateHandler = NULL, !.hist.destroyed = TRUE,
               !.isDisplayed = FALSE]

\* Mutant: teardown also removes the persisted flag.
destroyClearsStorage(w) ==
  LET a == IF w.intervalId # NULL
           THEN [w EXCEPT !.timers.interval = FALSE, !.intervalId = NULL]
           ELSE w
      b == detachHandler(a)
  IN [b EXCEPT !.videoInstance = NULL, !.timeUpdateHandler = NULL, !.hist.destroyed = TRUE,
               !.localStorage = NULL]

\* Mutant: the sampler is left running.
destroyKeepsSampler(w) ==
  LET b == detachHandler(w)
  IN [b EXCEPT !.videoInstance = NULL, !.timeUpdateHandler = NULL, !.hist.destroyed = TRUE]

destroy(w) ==
  LET a == IF w.intervalId # NULL
           THEN [w EXCEPT !.timers.interval = FALSE, !.intervalId = NULL]
           ELSE w
      b == detachHandler(a)
  IN [b EXCEPT !.videoInstance = NULL, !.timeUpdateHandler = NULL, !.hist.destroyed = TRUE]

\* ---------------------------------------------------------- constructor
\* Mutant: no `return` after the fast-path timer is scheduled.
constructFallsThrough(w, setItem) ==
  IF config.storageKey # NULL
  THEN LET r == [w EXCEPT !.hist.getItems = @ + 1]
       IN IF r.localStorage = "true"
          THEN startWatching([r EXCEPT !.timers.fastPath = TRUE, !.hist.fastPath = TRUE], setItem)
          ELSE startWatching(r, setItem)
  ELSE startWatching(w, setItem)

construct(w, setItem) ==
  IF config.storageKey # NULL
  THEN LET r == [w EXCEPT !.hist.getItems = @ + 1]
       IN IF r.localStorage = "true"
          THEN [r EXCEPT !.timers.fastPath = TRUE, !.hist.fastPath = TRUE]
          ELSE startWatching(r, setItem)
  ELSE startWatching(w, setItem)

\* ------------------------------------------------------------------ Init
Init ==
  /\ config \in Configs
  /\ localStorage \in {NULL, "true"}
  /\ config.storageKey = NULL => localStorage = NULL
  /\ smartplayer = NoPlayer
  /\ document \in [delayed : {MaxDelayed}, container : {"absent", "hidden"}]
  /\ attempts = 0
  /\ isDisplayed = FALSE
  /\ videoInstance = NULL
  /\ timeUpdateHandler = NULL
  /\ intervalId = NULL
  /\ timers = NoTimers
  /\ listeners = FALSE
  /\ controller = "none"
  /\ session = "first"
  /\ hist = [NoHist EXCEPT !.storedAtLoad = localStorage]

\* --------------------------------------------------------------- actions
\* The outcomes of setItem a callback can meet: setItem is reached only with
\* a storageKey and the latch open (revealContent, lines 74 and 110).
Outcomes ==
  IF config.storageKey # NULL /\ ~ isDisplayed THEN SetItemOutcomes ELSE {"stored"}

\* new VideoDelayController(config)
Construct ==
  /\ controller = "none"
  /\ \E setItem \in Outcomes :
       LET w == construct(World, setItem)
       IN /\ Commit(w)
          /\ controller' = IF w.hist.uncaught THEN "lost" ELSE "live"
  /\ UNCHANGED <<config, session>>

\* setTimeout(() => this.startWatching(), retryDelay) fires
RetryFires ==
  /\ timers.retry
  /\ \E setItem \in Outcomes :
       Commit(startWatching([World EXCEPT !.timers.retry = FALSE,
                                          !.hist.retriesFired = @ + 1], setItem))
  /\ UNCHANGED <<config, session, controller>>

\* setTimeout(() => this.revealContent(), 100) fires
FastPathFires ==
  /\ timers.fastPath
  /\ \E setItem \in Outcomes :
       Commit(revealContent([World EXCEPT !.timers.fastPath = FALSE], "fastPath", setItem))
  /\ UNCHANGED <<config, session, controller>>

\* the 500 ms scroll timeout of revealContent fires
ScrollFires ==
  /\ timers.scroll
  /\ Commit([World EXCEPT !.timers.scroll = FALSE])
  /\ UNCHANGED <<config, session, controller>>

\* the instance notifies its timeupdate listeners
TimeUpdate ==
  /\ smartplayer.present
  /\ listeners
  /\ \E setItem \in Outcomes :
       Commit(handleTimeUpdate(World, setItem))
  /\ UNCHANGED <<config, session, controller>>

\* the setInterval callback of startWatching fires
SamplerTick ==
  /\ timers.interval
  /\ Commit(IF isDisplayed THEN [World EXCEPT !.timers.interval = FALSE] ELSE World)
  /\ UNCHANGED <<config, session, controller>>

ForceReveal ==
  /\ controller = "live"
  /\ \E setItem \in Outcomes :
       Commit(revealContent(World, "force", setItem))
  /\ UNCHANGED <<config, session, controller>>

Destroy ==
  /\ controller = "live"
  /\ Commit(destroy(World))
  /\ UNCHANGED <<config, session, controller>>

\* the player script creates its first instance
PlayerAppears ==
  /\ ~ smartplayer.present
  /\ \E shape \in InstanceShapes, t \in TimeValues, ap \in BOOLEAN :
       smartplayer' = [present |-> TRUE, shape |-> shape, currentTime |-> t, smartAutoPlay |-> ap]
  /\ UNCHANGED <<config, localStorage, document, attempts, isDisplayed, videoInstance,
                 timeUpdateHandler, intervalId, timers, listeners, controller, session, hist>>

\* playback moves (play, seek, autoplay state change); once the latch is
\* closed no statement that changes state reads the player (lines 166, 195,
\* 214), so its further progress is not followed
PlayerProgress ==
  /\ smartplayer.present
  /\ ~ isDisplayed
  /\ \E t \in TimeValues, ap \in BOOLEAN :
       /\ <<t, ap>> # <<smartplayer.currentTime, smartplayer.smartAutoPlay>>
       /\ smartplayer' = [smartplayer EXCEPT !.currentTime = t, !.smartAutoPlay = ap]
  /\ UNCHANGED <<config, localStorage, document, attempts, isDisplayed, videoInstance,
                 timeUpdateHandler, intervalId, timers, listeners, controller, session, hist>>

\* the page is loaded again, any number of times: a fresh document, no
\* timers, no controller; localStorage persists
Reload ==
  /\ controller # "none"
  /\ session' = "later"
  /\ smartplayer' = NoPlayer
  /\ document' \in [delayed : {MaxDelayed}, container : {"absent", "hidden"}]
  /\ attempts' = 0
  /\ isDisplayed' = FALSE
  /\ videoInstance' = NULL
  /\ timeUpdateHandler' = NULL
  /\ intervalId' = NULL
  /\ timers' = NoTimers
  /\ listeners' = FALSE
  /\ controller' = "none"
  /\ hist' = [NoHist EXCEPT !.storedAtLoad = localStorage,
                            !.prevRun = IF config.storageKey # NULL /\ hist.storedAtLoad = NULL
                                           /\ hist.revealBy = "threshold"
                                        THEN IF hist.setItemFailed THEN "failed" ELSE "stored"
                                        ELSE "other"]
  /\ UNCHANGED <<config, localStorage>>

Next ==
  \/ Construct
  \/ RetryFires
  \/ FastPathFires
  \/ ScrollFires
  \/ TimeUpdate
  \/ SamplerTick
  \/ ForceReveal
  \/ Destroy
  \/ PlayerAppears
  \/ PlayerProgress
  \/ Reload

Spec == Init /\ [][Next]_vars

\* The page on which the player script never creates an instance.  Timers
\* of a live page fire: the retry timeout is weakly fair.
NextNoInstance ==
  \/ Construct
  \/ RetryFires
  \/ FastPathFires
  \/ ScrollFires
  \/ ForceReveal
  \/ Destroy

SpecNoInstance == Init /\ [][NextNoInstance]_vars /\ WF_vars(RetryFires)

\* ---------------------------------------------------------------- claims
DomSteps == {"removeDelay", "showContainer", "scheduleScroll"}

\* C1: the reveal steps (delay-class removal, container show, scroll
\* scheduling) run exactly once in total however many times and by whichever
\* path revealContent is called, the storage write runs at most once, and a
\* call after the first changes nothing.
C1_RevealOnce ==
  /\ hist.revealRuns = (IF isDisplayed THEN 1 ELSE 0)
  /\ (hist.revealCalls >= 1) <=> isDisplayed
  /\ \A s \in DomSteps : hist.done[s] = hist.revealRuns
  /\ \A s \in RevealSteps : hist.done[s] <= 1
  /\ isDisplayed => document.delayed = 0 /\ document.container # "hidden"

C1_Witness ==
  /\ hist.repeated
  /\ hist.revealBy = "threshold"
  /\ hist.done["setItem"] = 1

\* The test of the time-progress callback on the time and autoplay state it
\* reads (the time is 0 when it is unavailable).
CallbackCondition ==
  /\ readTime(World) >= config.secondsToDisplay
  /\ ~ (videoInstance # NULL /\ smartplayer.smartAutoPlay /\ readTime(World) = 0)

C3_ZeroAutoplayGuard ==
  [][(/\ smartplayer.present
      /\ smartplayer.smartAutoPlay
      /\ smartplayer.currentTime = 0
      /\ (TimeUpdate \/ RetryFires \/ Construct)) => isDisplayed' = isDisplayed]_vars

\* C4: with no instance ever available and no other trigger, discovery
\* schedules exactly maxAttempts retries and the run after the last one
\* performs the fail-open reveal, never earlier, never later; with
\* maxAttempts = 0 that is the constructor's own run, no retry scheduled.
C4_ExhaustionAfterMaxAttempts ==
  /\ hist.retriesScheduled <= config.maxAttempts
  /\ hist.revealBy = "exhaustion" =>
       /\ hist.retriesScheduled = config.maxAttempts
       /\ hist.retriesFired = config.maxAttempts
       /\ attempts = config.maxAttempts
       /\ ~ timers.retry
  /\ (controller # "none" /\ ~ hist.fastPath /\ ~ smartplayer.present) =>
       IF isDisplayed
       THEN hist.revealBy \in {"exhaustion", "force"}
       ELSE /\ timers.retry
            /\ hist.retriesFired < config.maxAttempts
            /\ hist.retriesScheduled = hist.retriesFired + 1
            /\ attempts = hist.retriesScheduled
  /\ (controller # "none" /\ ~ hist.fastPath /\ ~ smartplayer.present
        /\ hist.retriesFired = config.maxAttempts) => isDisplayed

C4_Witness ==
  /\ hist.revealBy = "exhaustion"
  /\ config.maxAttempts = MaxAttemptsCfg
  /\ hist.retriesFired = MaxAttemptsCfg

\* C5: when no instance ever becomes available, a controller that entered
\* discovery eventually has isDisplayed = true and no retry pending, and
\* stays so (weak fairness of the retry timer).
C5_FailOpenLiveness ==
  (controller # "none" /\ ~ hist.fastPath) ~> [](isDisplayed /\ ~ timers.retry)

C5_Witness ==
  /\ hist.revealBy = "exhaustion"
  /\ hist.retriesFired >= 1
  /\ hist.destroyed
  /\ ~ timers.retry

\* C6: a controller constructed with storageKey set and the persisted value
\* "true" never queries the player host, never counts an attempt, never
\* schedules a retry, never subscribes and never starts the sampler; its
\* reveal runs once, from the fast-path timer or an earlier forceReveal.
C6_FastPathSkipsDiscovery ==
  /\ (controller # "none" /\ config.storageKey # NULL /\ hist.storedAtLoad = "true")
       => hist.fastPath
  /\ hist.fastPath =>
       /\ hist.hostQueries = 0
       /\ attempts = 0
       /\ hist.retriesScheduled = 0 /\ ~ timers.retry
       /\ hist.subscribes = 0 /\ ~ listeners /\ timeUpdateHandler = NULL
       /\ hist.intervalsStarted = 0 /\ ~ timers.interval /\ intervalId = NULL
       /\ videoInstance = NULL
       /\ hist.revealBy \in {NULL, "fastPath", "force"}
       /\ hist.revealRuns <= 1
       /\ ~ timers.fastPath => isDisplayed /\ hist.revealRuns = 1
       /\ isDisplayed => \A s \in DomSteps : hist.done[s] = 1

C6_Witness ==
  /\ hist.fastPath
  /\ hist.revealBy = "fastPath"
  /\ smartplayer.present

\* C7 as stated: with storageKey set and nothing persisted, a reveal by the
\* threshold leaves "true" under the key, and the controller of the next
\* page load takes the fast path with no discovery.
C7_RoundTripAlways ==
  /\ (config.storageKey # NULL /\ hist.revealBy = "threshold") =>
       hist.revealRuns = 1 /\ localStorage = "true"
  /\ (hist.prevRun \in {"stored", "failed"} /\ controller # "none") =>
       hist.fastPath /\ hist.hostQueries = 0

\* C7 amended: the same, provided setItem did not throw; when it threw the
\* key keeps the value it had and the next controller runs discovery.
C7_RoundTrip ==
  /\ (config.storageKey # NULL /\ hist.revealBy = "threshold") =>
       /\ hist.revealRuns = 1
       /\ ~ hist.setItemFailed => localStorage = "true" /\ hist.done["setItem"] = 1
       /\ hist.setItemFailed => localStorage = hist.storedAtLoad /\ hist.done["setItem"] = 0
  /\ hist.prevRun = "stored" =>
       /\ hist.storedAtLoad = "true"
       /\ controller # "none" =>
            /\ hist.fastPath
            /\ hist.hostQueries = 0 /\ hist.subscribes = 0
            /\ ~ timers.fastPath => isDisplayed
  /\ hist.prevRun = "failed" =>
       /\ hist.storedAtLoad = NULL
       /\ controller # "none" => ~ hist.fastPath /\ hist.hostQueries >= 1

C7_Witness ==
  /\ session = "later"
  /\ hist.prevRun = "stored"
  /\ hist.revealBy = "fastPath"
  /\ isDisplayed

\* C8: when one side effect of a reveal fails, every other side effect of
\* that reveal is still attempted and nothing reaches the caller.
C8_FaultIsolation ==
  hist.setItemFailed => hist.skipped = {}

\* C9: once destroy() has run, a retry timer, sampler tick or time-progress
\* notification that fires changes no controller state, registers no
\* subscription, starts no sampler, schedules no retry and reveals nothing.
C9_InertAfterDestroy ==
  [][(hist.destroyed /\ (RetryFires \/ SamplerTick \/ TimeUpdate)) =>
       /\ UNCHANGED <<attempts, videoInstance, timeUpdateHandler, intervalId, isDisplayed>>
       /\ UNCHANGED <<listeners, document, localStorage>>
       /\ ~ timers'.retry
       /\ timers'.interval = timers.interval
       /\ timers'.scroll = timers.scroll]_vars

\* What destroy() guarantees of the state it leaves, apart from the listener.
DestroyFrame(d) ==
  /\ ~ d.timers.interval
  /\ d.videoInstance = NULL /\ d.timeUpdateHandler = NULL /\ d.intervalId = NULL
  /\ d.isDisplayed = isDisplayed /\ d.attempts = attempts
  /\ d.localStorage = localStorage /\ d.document = document
  /\ d.timers.retry = timers.retry /\ d.timers.fastPath = timers.fastPath

\* C10 as stated: destroy() in any state cancels the sampler, detaches the
\* subscription, leaves the three handles absent and leaves isDisplayed,
\* attempts and the persisted value unchanged.  Stated of every state in
\* which destroy() can be called.
C10_DestroyAlwaysDetaches ==
  controller = "live" => DestroyFrame(destroy(World)) /\ ~ destroy(World).listeners

\* C10 amended: the same, except that the subscription is detached when the
\* first removal method the instance offers removes it; when it offers none
\* or the method throws, the listener stays registered on the instance.
C10_DestroyFrame ==
  controller = "live" =>
    /\ DestroyFrame(destroy(World))
    /\ destroy(World).listeners = (listeners /\ removeListener(smartplayer.shape) # "removes")
    /\ (removeListener(smartplayer.shape) = "removes" \/ hist.subscribes = 0)
         => ~ destroy(World).listeners

C10_Witness ==
  /\ hist.destroyed
  /\ hist.subscribes = 1
  /\ ~ listeners
  /\ ~ timers.interval
  /\ ~ isDisplayed
  /\ videoInstance = NULL

\* The worlds in which a discovery run can start from the current state:
\* the constructor's call (no persisted reveal) and the retry timer's call.
DiscoveryStarts ==
  (IF controller = "none" /\ ~ (config.storageKey # NULL /\ localStorage = "true")
   THEN {World} ELSE {})
  \cup
  (IF timers.retry
   THEN {[World EXCEPT !.timers.retry = FALSE, !.hist.retriesFired = @ + 1]}
   ELSE {})

\* An instance has been found by a discovery run of this controller.
InstanceFound ==
  hist.subscribes >= 1 \/ timeUpdateHandler # NULL \/ videoInstance # NULL

\* C11: isDisplayed is a one-shot latch.  It is false until a controller is
\* constructed, it is true exactly when the body of reveal has run, and no
\* discovery run, callback, forceReveal() or destroy() applied to a state in
\* which it is true yields a state in which it is false.
C11_Latch ==
  /\ controller = "none" => ~ isDisplayed
  /\ isDisplayed <=> hist.revealRuns >= 1
  /\ isDisplayed =>
       /\ destroy(World).isDisplayed
       /\ \A o \in Outcomes :
            /\ handleTimeUpdate(World, o).isDisplayed
            /\ revealContent(World, "force", o).isDisplayed
            /\ \A d \in DiscoveryStarts : startWatching(d, o).isDisplayed

C11_Witness ==
  /\ isDisplayed
  /\ hist.destroyed
  /\ hist.repeated
  /\ hist.retriesFired >= 1

\* C12: the persisted flag is written only by a reveal, only with the value
\* "true" and only when a storageKey is configured; a flag that was "true"
\* when the page loaded is "true" in every state of that page, destroy()
\* included, and the next page load starts from the value the last one left;
\* without a storageKey the storage is neither read nor written.
C12_PersistedFlag ==
  /\ localStorage \in {NULL, "true"}
  /\ hist.getItems <= 1
  /\ config.storageKey = NULL =>
       /\ localStorage = NULL
       /\ hist.getItems = 0
       /\ hist.done["setItem"] = 0
  /\ hist.storedAtLoad = "true" => localStorage = "true"
  /\ localStorage # hist.storedAtLoad =>
       /\ localStorage = "true"
       /\ isDisplayed
       /\ hist.done["setItem"] = 1
       /\ ~ hist.setItemFailed
  /\ controller = "live" => destroy(World).localStorage = localStorage

C12_Witness ==
  /\ session = "later"
  /\ hist.storedAtLoad = "true"
  /\ hist.prevRun = "stored"
  /\ hist.destroyed
  /\ isDisplayed
  /\ localStorage = "true"

\* C13: a discovery run that finds an instance without the named-event
\* subscribe method falls back to the other subscription shapes and ends
\* without an uncaught fault: no fault escapes the run and, the instance
\* offering the generic listener pair, the callback is subscribed.
C13_SubscribeFallback ==
  (InstanceFound /\ smartplayer.present /\ ~ smartplayer.shape.on) =>
    /\ ~ hist.uncaught
    /\ smartplayer.shape.removeEventListener # "absent" => hist.subscribes = 1

\* C14: a discovery run that finds an instance whose reported time is
\* already at or past secondsToDisplay reveals within that run: the state
\* the run leaves has isDisplayed true, by the immediate check, with no
\* callback and no timer in between.
C14_ImmediateReveal ==
  (~ isDisplayed /\ smartplayer.present /\ immediateCheck(World)) =>
    \A d \in DiscoveryStarts : \A o \in SetItemOutcomes :
      /\ startWatching(d, o).isDisplayed
      /\ startWatching(d, o).hist.revealBy = "immediate"

\* C15: 0 <= attempts <= maxAttempts; attempts counts the retries scheduled;
\* a discovery run adds exactly 1 when it finds no instance with attempts
\* below maxAttempts and nothing otherwise; callbacks, forceReveal() and
\* destroy() leave it alone; once an instance has been found or isDisplayed
\* is true no run can change it.
C15_AttemptsBounded ==
  /\ attempts \in 0..config.maxAttempts
  /\ attempts = hist.retriesScheduled
  /\ \A o \in Outcomes :
       /\ \A d \in DiscoveryStarts :
            startWatching(d, o).attempts =
              IF ~ isDisplayed /\ ~ smartplayer.present /\ attempts < config.maxAttempts
              THEN attempts + 1 ELSE attempts
       /\ (smartplayer.present /\ listeners) => handleTimeUpdate(World, o).attempts = attempts
       /\ controller = "live" => revealContent(World, "force", o).attempts = attempts
  /\ controller = "live" => destroy(World).attempts = attempts
  /\ InstanceFound => ~ timers.retry
  /\ (isDisplayed /\ timers.retry) =>
       \A d \in DiscoveryStarts : \A o \in Outcomes :
         startWatching(d, o).attempts = attempts /\ ~ startWatching(d, o).timers.retry

C15_Witness ==
  /\ attempts = MaxAttemptsCfg
  /\ hist.subscribes = 1
  /\ hist.retriesFired = MaxAttemptsCfg
  /\ ~ timers.retry

\* C16: after a reveal, by any path, the subscription handle and the poll
\* handle are absent, no listener of the controller is registered on the
\* instance and no sampler timer is active.
C16_ReleasedAfterReveal ==
  isDisplayed =>
    /\ timeUpdateHandler = NULL
    /\ intervalId = NULL
    /\ ~ listeners
    /\ ~ timers.interval

\* C17: a discovery run that starts while isDisplayed is true is a no-op:
\* no host query, attempts, source handle, subscription and poll handle
\* unchanged, no retry scheduled, no reveal.  In particular the retry timer
\* that fires after a reveal leaves the state it found, so the retry chain
\* ends there.
C17_DiscoveryNoOpWhenDisplayed ==
  isDisplayed =>
    \A o \in Outcomes :
      /\ startWatching(World, o) = World
      /\ \A d \in DiscoveryStarts :
           /\ startWatching(d, o) = d
           /\ ~ startWatching(d, o).timers.retry

C17_Witness ==
  /\ isDisplayed
  /\ hist.revealBy = "force"
  /\ hist.retriesScheduled >= 1
  /\ hist.retriesFired = hist.retriesScheduled
  /\ hist.hostQueries = hist.retriesFired
  /\ ~ timers.retry
  /\ videoInstance = NULL

\* The states revealContent passes through after each of its side effects,
\* in the order of the statements of the try block (setItem succeeding).
RevealStages(w, via) ==
  LET a == removeDelayClass(latch(w, via))
      b == showContainer(a)
      c == scheduleScroll(b)
      d == IF config.storageKey # NULL THEN storeFlag(c) ELSE c
  IN {a, b, c, d, revealRelease(d)}

\* Some side effect of reveal has been performed.
SideEffectDone ==
  \/ \E step \in RevealSteps : hist.done[step] >= 1
  \/ document.delayed = 0
  \/ document.container = "shown"
  \/ timers.scroll
  \/ localStorage # hist.storedAtLoad

\* C18: the latch is written before every reveal side effect.  In every
\* state in which some side effect has been performed isDisplayed is true;
\* and in every state a reveal passes through after a side effect the latch
\* is already closed, so that a reveal entered again from there touches
\* nothing.
C18_LatchBeforeSideEffects ==
  /\ SideEffectDone => isDisplayed
  /\ ~ isDisplayed =>
       /\ revealBody(World, "force", "stored") \in RevealStages(World, "force")
       /\ \A p \in RevealStages(World, "force") :
            /\ p.isDisplayed
            /\ \A o \in Outcomes :
                 LET r == revealContent(p, "force", o)
                 IN r = [p EXCEPT !.hist.revealCalls = r.hist.revealCalls,
                                  !.hist.repeated = r.hist.repeated]

C18_Witness ==
  /\ isDisplayed
  /\ hist.repeated
  /\ hist.setItemFailed
  /\ hist.done["removeDelay"] = 1
  /\ hist.done["scheduleScroll"] = 1
  /\ hist.done["setItem"] = 0

\* C19: a time read that fails counts as 0 and never as an error.  A
\* timeupdate callback that runs while the source handle is absent, or while
\* the instance reports no time, completes without raising and reveals only
\* if 0 >= secondsToDisplay.
C19_FailedReadIsZero ==
  (smartplayer.present /\ listeners /\ ~ isDisplayed
     /\ (videoInstance = NULL \/ smartplayer.currentTime = NA)) =>
    \A o \in SetItemOutcomes :
      /\ ~ handleTimeUpdate(World, o).hist.uncaught
      /\ handleTimeUpdate(World, o).isDisplayed => 0 >= config.secondsToDisplay

\* C20: discovery and watching never overlap.  At most one retry timer is
\* pending, at most one subscription is ever registered and at most one
\* sampler ever started; while a retry timer is pending there is no
\* subscription, no sampler and no instance found; hence once an instance
\* has been found no retry is pending or scheduled again.
C20_DiscoveryXorWatching ==
  /\ hist.retriesScheduled - hist.retriesFired = IF timers.retry THEN 1 ELSE 0
  /\ hist.subscribes <= 1
  /\ hist.intervalsStarted <= 1
  /\ listeners => hist.subscribes = 1
  /\ timers.interval => hist.intervalsStarted = 1
  /\ timers.retry => ~ listeners /\ ~ timers.interval /\ ~ InstanceFound
  /\ InstanceFound => hist.retriesScheduled = hist.retriesFired

C20_Witness ==
  /\ hist.retriesFired >= 1
  /\ hist.subscribes = 1
  /\ hist.intervalsStarted = 1
  /\ listeners
  /\ timers.interval
  /\ ~ timers.retry
  /\ ~ isDisplayed

====
